---------------------------- MODULE Spec2Model ----------------------------
(***************************************************************************)
(* Model of src/main.rs: polynomial_multiply (linear convolution) and      *)
(* positive_wrapped_convolution (circular convolution) over Vec<i64>.      *)
(*                                                                         *)
(* One call is one behaviour: Init is the moment the function is entered   *)
(* with its two borrowed slices, every loop iteration is one step, and the *)
(* call ends either returned or panicked.  The build profile decides what  *)
(* an i64 overflow does (panic with overflow checks, wrap without), so it  *)
(* is a nondeterministic input of the model.                               *)
(***************************************************************************)
EXTENDS Integers, Sequences, FiniteSets, TLC

VARIABLES frame, overflow_checks

vars == <<frame, overflow_checks>>

(***************************************************************************)
(* Bounds of the model.                                                    *)
(***************************************************************************)
MaxN == 3
MaxM == 3
MaxOrdLen == 2

(***************************************************************************)
(* i64 arithmetic.  An integer is kept exactly, as WideLimbs base-2^16     *)
(* limbs in two's complement, least significant limb first; an i64 is such *)
(* an integer within the range of 64 bits.  The exact product of two i64   *)
(* and the exact sum of the model's few products fit the wide form, so     *)
(* overflow is decided on exact values and wrapping is truncation to the   *)
(* low 64 bits.                                                            *)
(***************************************************************************)
I64Bits == 64
Base == 2^16
Half == 2^8
I64Limbs == I64Bits \div 16
WideLimbs == 2 * I64Limbs + 1

\* F applied to the value of x.  An operator's argument is evaluated again at
\* each of its uses, a bound variable once.
With(x, F(_)) == CHOOSE r \in {F(v) : v \in {x}} : TRUE

Fill(neg) == IF neg THEN Base - 1 ELSE 0

FromInt(k) ==
    [p \in 1..WideLimbs |->
        IF p = 1 THEN k % Base
        ELSE IF p = 2 THEN (k \div Base) % Base ELSE Fill(k < 0)]

Zero == FromInt(0)
One == FromInt(1)
I64Max ==
    [p \in 1..WideLimbs |->
        IF p < I64Limbs THEN Base - 1
        ELSE IF p = I64Limbs THEN (Base \div 2) - 1 ELSE 0]
I64Min ==
    [p \in 1..WideLimbs |->
        IF p < I64Limbs THEN 0
        ELSE IF p = I64Limbs THEN Base \div 2 ELSE Base - 1]

RECURSIVE Propagate(_, _, _)
Propagate(cols, p, carry) ==
    IF p > Len(cols) THEN <<>>
    ELSE With(cols[p] + carry,
              LAMBDA s : <<s % Base>> \o Propagate(cols, p + 1, s \div Base))

\* exact x + y
WAdd(x, y) ==
    With(<<x, y>>, LAMBDA q :
    With([p \in 1..WideLimbs |-> q[1][p] + q[2][p]], LAMBDA cols :
        Propagate(cols, 1, 0)))

RECURSIVE ColSum(_, _, _, _)
ColSum(x, y, k, p) ==
    IF p > k THEN 0 ELSE x[p] * y[k + 1 - p] + ColSum(x, y, k, p + 1)

\* exact x * y.  A product of two limbs does not fit 32 bits, so each limb
\* of x is multiplied in two halves, x[p] = xh[p] * 2^8 + xl[p]; column k
\* is then hi[k] * 2^8 + lo[k], of which the part of hi[k] above 2^8 belongs
\* to column k + 1.
WMul(x, y) ==
    With(<<[p \in 1..WideLimbs |-> x[p] \div Half],
           [p \in 1..WideLimbs |-> x[p] % Half], y>>, LAMBDA q :
    With(<<[k \in 1..WideLimbs |-> ColSum(q[1], q[3], k, 1)],
           [k \in 1..WideLimbs |-> ColSum(q[2], q[3], k, 1)]>>, LAMBDA c :
    With([k \in 1..WideLimbs |->
             (c[1][k] % Half) * Half + c[2][k]
             + (IF k > 1 THEN c[1][k - 1] \div Half ELSE 0)], LAMBDA cols :
        Propagate(cols, 1, 0))))

\* the integer is within i64::MIN ..= i64::MAX
FitsI64(w) ==
    \A v \in {w} :
        \A p \in (I64Limbs + 1)..WideLimbs : v[p] = Fill(v[I64Limbs] >= Base \div 2)

\* the low 64 bits, read as an i64
WrapI64(w) ==
    With(w, LAMBDA v :
        [p \in 1..WideLimbs |->
            IF p <= I64Limbs THEN v[p] ELSE Fill(v[I64Limbs] >= Base \div 2)])


(***************************************************************************)
(* Inputs.  main() calls both functions on one fixed pair of vectors; the  *)
(* functions themselves take any two slices.                               *)
(***************************************************************************)
Vec(ints) == [p \in 1..Len(ints) |-> FromInt(ints[p])]

SampleA == Vec(<<1, 2, 3, 4>>)
SampleB == Vec(<<5, 6, 7, 8>>)

\* the elements of a and of b: with 1, -1 and i64::MAX there are products
\* and sums that overflow, and sums that overflow in one order only
AValues == {FromInt(-1), I64Max}
BValues == {FromInt(-1), One, I64Max}

Slices(S, maxLen) == UNION {[1..k -> S] : k \in 0..maxLen}

\* [1, 0, ..., 0] of length n
UnitVec(n) == [p \in 1..n |-> IF p = 1 THEN One ELSE Zero]

Inputs ==
    (Slices(AValues, MaxN) \X Slices(BValues, MaxM))
    \cup {<<a, UnitVec(Len(a))>> : a \in Slices(AValues, MaxN)}
    \cup {<<SampleA, SampleB>>}

Functions == {"polynomial_multiply", "positive_wrapped_convolution"}

(***************************************************************************)
(* The frame of one call.  a, b, result, x, i, j, pc are the function's    *)
(* own state; panic is the message of the panic that ended it; the others  *)
(* (order, overflowed, count, log, nsteps, naccess) are history kept for   *)
(* the properties and never read by a step of the source's loops.          *)
(***************************************************************************)
NoStep == [k |-> -1, pre |-> -1, j |-> -1]

Call(fn, a, b, order) ==
    [fn |-> fn, a |-> a, b |-> b, pc |-> "entry", panic |-> "none",
     result |-> <<>>, x |-> 0, i |-> 0, j |-> 0,
     order |-> order, overflowed |-> FALSE,
     count |-> [q \in (0..Len(a)-1) \X (0..Len(b)-1) |-> 0],
     log |-> [q \in (0..Len(a)-1) \X (0..Len(b)-1) |-> NoStep],
     nsteps |-> 0, naccess |-> 0]

Panic(f, msg) == [f EXCEPT !.pc = "panicked", !.panic = msg]

Terminal(f) == f.pc \in {"returned", "panicked"}

\* vec![0; len]
ZeroVec(len) == [p \in 1..len |-> Zero]

(***************************************************************************)
(* result[k] += ca * cb  (main.rs lines 32 and 61).  The product is        *)
(* evaluated first, then the place result[k] with its bounds check, then   *)
(* the sum; each of the two i64 operations panics on overflow when the     *)
(* build checks overflow and wraps otherwise.                              *)
(***************************************************************************)
\* slip: "=" for "+="
AccumulateInto_Assign(f, ca, cb, k, oc) ==
    With(WMul(ca, cb), LAMBDA p :
    IF ~FitsI64(p) /\ oc
    THEN Panic([f EXCEPT !.overflowed = TRUE], "attempt to multiply with overflow")
    ELSE IF ~(k < Len(f.result))
    THEN Panic(f, "index out of bounds")
    ELSE [f EXCEPT !.result[k + 1] = WrapI64(p),
                   !.overflowed = @ \/ ~FitsI64(p),
                   !.naccess = @ + 1])

\* slip: wrapping_add for "+=", the sum never checked
AccumulateInto_UncheckedAdd(f, ca, cb, k, oc) ==
    With(WMul(ca, cb), LAMBDA p :
    IF ~FitsI64(p) /\ oc
    THEN Panic([f EXCEPT !.overflowed = TRUE], "attempt to multiply with overflow")
    ELSE IF ~(k < Len(f.result))
    THEN Panic(f, "index out of bounds")
    ELSE With(WAdd(f.result[k + 1], WrapI64(p)), LAMBDA s :
         [f EXCEPT !.result[k + 1] = WrapI64(s),
                   !.overflowed = @ \/ ~FitsI64(p) \/ ~FitsI64(s),
                   !.naccess = @ + 1]))

AccumulateInto(f, ca, cb, k, oc) ==
    With(WMul(ca, cb), LAMBDA p :
    IF ~FitsI64(p) /\ oc
    THEN Panic([f EXCEPT !.overflowed = TRUE], "attempt to multiply with overflow")
    ELSE IF ~(k < Len(f.result))
    THEN Panic(f, "index out of bounds")
    ELSE With(WAdd(f.result[k + 1], WrapI64(p)), LAMBDA s :
         IF ~FitsI64(s) /\ oc
         THEN Panic([f EXCEPT !.overflowed = TRUE, !.naccess = @ + 1],
                    "attempt to add with overflow")
         ELSE [f EXCEPT !.result[k + 1] = WrapI64(s),
                        !.overflowed = @ \/ ~FitsI64(p) \/ ~FitsI64(s),
                        !.naccess = @ + 1]))

\* history of a completed accumulation with the loop variables q: the index
\* k written, and for the circular loop the value pre taken modulo n and the
\* index j it gave
Recorded(f, q, k, pre, j) ==
    With(f, LAMBDA g :
        IF g.pc = "panicked" THEN g
        ELSE [g EXCEPT !.count[q] = @ + 1, !.nsteps = @ + 1,
                       !.log[q] = [k |-> k, pre |-> pre, j |-> j]])

(***************************************************************************)
(* polynomial_multiply, main.rs lines 25-36.                               *)
(***************************************************************************)
\* lines 26-28: n + m - 1 is usize arithmetic; with both slices empty it is
\* 0 - 1, a panic with overflow checks and usize::MAX without, which
\* vec! cannot allocate.
\* slip: vec![0; n + m]
PolyEntryStep_AllocNPlusM(f, oc) ==
    [f EXCEPT !.pc = "loop", !.result = ZeroVec(Len(f.a) + Len(f.b)),
              !.i = 0, !.j = 0]

PolyEntryStep(f, oc) ==
    LET n == Len(f.a)
        m == Len(f.b)
    IN  IF n + m < 1
        THEN Panic(f, IF oc THEN "attempt to subtract with overflow"
                            ELSE "capacity overflow")
        ELSE [f EXCEPT !.pc = "loop", !.result = ZeroVec(n + m - 1),
                       !.i = 0, !.j = 0]

\* the pair after (i, j) in the order of the two for loops, lines 30-31
\* slip: the inner loop stops one short, for j in 0..m-1
PolyAdvance_SkipLast(f) ==
    IF f.j + 1 < Len(f.b) - 1 THEN [f EXCEPT !.j = @ + 1]
    ELSE [f EXCEPT !.i = @ + 1, !.j = 0]

PolyAdvance(f) ==
    IF f.j + 1 < Len(f.b) THEN [f EXCEPT !.j = @ + 1]
    ELSE [f EXCEPT !.i = @ + 1, !.j = 0]

\* the loops have a pair left to visit
PolyMore(f) == f.i < Len(f.a) /\ f.j < Len(f.b)

\* line 32 for the pair (i, j)
PolyAccumulateAt(f, i, j, oc) ==
    Recorded(AccumulateInto(f, f.a[i + 1], f.b[j + 1], i + j, oc),
             <<i, j>>, i + j, -1, j)

\* one iteration of the inner loop, lines 30-34
PolyLoopStep(f, oc) ==
    With(PolyAccumulateAt(f, f.i, f.j, oc), LAMBDA g :
        IF g.pc = "panicked" THEN g ELSE PolyAdvance(g))

\* line 35
PolyReturnStep(f) == [f EXCEPT !.pc = "returned"]

PolyEntry ==
    /\ frame.fn = "polynomial_multiply"
    /\ frame.pc = "entry"
    /\ frame' = PolyEntryStep(frame, overflow_checks)
    /\ UNCHANGED overflow_checks

PolyAccumulate ==
    /\ frame.fn = "polynomial_multiply"
    /\ frame.order = "source"
    /\ frame.pc = "loop"
    /\ PolyMore(frame)
    /\ frame' = PolyLoopStep(frame, overflow_checks)
    /\ UNCHANGED overflow_checks

PolyReturn ==
    /\ frame.fn = "polynomial_multiply"
    /\ frame.order = "source"
    /\ frame.pc = "loop"
    /\ ~PolyMore(frame)
    /\ frame' = PolyReturnStep(frame)
    /\ UNCHANGED overflow_checks

(***************************************************************************)
(* positive_wrapped_convolution, main.rs lines 54-65.                      *)
(***************************************************************************)
\* lines 55-57
\* slip: the assertion left out
CircEntryStep_NoAssert(f) ==
    [f EXCEPT !.pc = "loop", !.result = ZeroVec(Len(f.a)), !.x = 0, !.i = 0]

CircEntryStep(f) ==
    LET n == Len(f.a)
    IN  IF n # Len(f.b)
        THEN Panic(f, "assertion failed: Input sequences must have the same length")
        ELSE [f EXCEPT !.pc = "loop", !.result = ZeroVec(n), !.x = 0, !.i = 0]

\* line 60: the value taken modulo n, and the index
\* slip: (x - i) % n, n not added before the modulo
WrappedPre_NoAddN(x, n, i) == x - i
WrappedPre(x, n, i) == x + n - i
\* slip: (x + i) % n, the correlation instead of the convolution
WrappedIndex_Correlation(x, n, i) == (x + i) % n
WrappedIndex(x, n, i) == WrappedPre(x, n, i) % n

\* the (x, i) after this one in the order of the two for loops, lines 58-59
CircAdvance(f) ==
    IF f.i + 1 < Len(f.a) THEN [f EXCEPT !.i = @ + 1]
    ELSE [f EXCEPT !.x = @ + 1, !.i = 0]

CircMore(f) == f.x < Len(f.a)

\* lines 60-61 for (x, i): a[i] and b[j] are bounds-checked reads
CircLoopStep(f, oc) ==
    LET n == Len(f.a)
        j == WrappedIndex(f.x, n, f.i)
    IN  IF ~(f.i < Len(f.a))
        THEN Panic(f, "index out of bounds")
        ELSE IF ~(0 <= j /\ j < Len(f.b))
        THEN Panic([f EXCEPT !.naccess = @ + 1], "index out of bounds")
        ELSE With(Recorded(AccumulateInto([f EXCEPT !.j = j, !.naccess = @ + 2],
                                          f.a[f.i + 1], f.b[j + 1], f.x, oc),
                           <<f.x, f.i>>, f.x, WrappedPre(f.x, n, f.i), j),
                  LAMBDA g : IF g.pc = "panicked" THEN g ELSE CircAdvance(g))

\* line 64
CircReturnStep(f) == [f EXCEPT !.pc = "returned"]

CircEntry ==
    /\ frame.fn = "positive_wrapped_convolution"
    /\ frame.pc = "entry"
    /\ frame' = CircEntryStep(frame)
    /\ UNCHANGED overflow_checks

CircAccumulate ==
    /\ frame.fn = "positive_wrapped_convolution"
    /\ frame.pc = "loop"
    /\ CircMore(frame)
    /\ frame' = CircLoopStep(frame, overflow_checks)
    /\ UNCHANGED overflow_checks

CircReturn ==
    /\ frame.fn = "positive_wrapped_convolution"
    /\ frame.pc = "loop"
    /\ ~CircMore(frame)
    /\ frame' = CircReturnStep(frame)
    /\ UNCHANGED overflow_checks

(***************************************************************************)
(* The specification: one call of either function on any input, in either  *)
(* build.                                                                  *)
(***************************************************************************)
Init ==
    /\ overflow_checks \in BOOLEAN
    /\ frame \in {Call(fn, in[1], in[2], "source") : fn \in Functions, in \in Inputs}

Next ==
    \/ PolyEntry
    \/ PolyAccumulate
    \/ PolyReturn
    \/ CircEntry
    \/ CircAccumulate
    \/ CircReturn

Spec == Init /\ [][Next]_vars

(***************************************************************************)
(* The same loop of polynomial_multiply with its n*m accumulations taken   *)
(* in any order: a call either follows the two for loops (order "source")  *)
(* or picks any pair not yet accumulated (order "any").                    *)
(***************************************************************************)
PolyAccumulateAny ==
    /\ frame.fn = "polynomial_multiply"
    /\ frame.order = "any"
    /\ frame.pc = "loop"
    /\ \E q \in DOMAIN frame.count :
          /\ frame.count[q] = 0
          /\ frame' = PolyAccumulateAt(frame, q[1], q[2], overflow_checks)
    /\ UNCHANGED overflow_checks

PolyReturnAny ==
    /\ frame.fn = "polynomial_multiply"
    /\ frame.order = "any"
    /\ frame.pc = "loop"
    /\ \A q \in DOMAIN frame.count : frame.count[q] > 0
    /\ frame' = PolyReturnStep(frame)
    /\ UNCHANGED overflow_checks

InitAnyOrder ==
    /\ overflow_checks \in BOOLEAN
    /\ frame \in {Call("polynomial_multiply", a, b, order) :
                    a \in Slices(AValues, MaxOrdLen),
                    b \in Slices(BValues, MaxOrdLen),
                    order \in {"source", "any"}}

NextAnyOrder ==
    \/ PolyEntry
    \/ PolyAccumulate
    \/ PolyReturn
    \/ PolyAccumulateAny
    \/ PolyReturnAny

SpecAnyOrder == InitAnyOrder /\ [][NextAnyOrder]_vars

(***************************************************************************)
(* A whole call: the steps above run from entry to the return or panic.    *)
(***************************************************************************)
Step(f, oc) ==
    IF f.fn = "polynomial_multiply"
    THEN IF f.pc = "entry" THEN PolyEntryStep(f, oc)
         ELSE IF PolyMore(f) THEN PolyLoopStep(f, oc) ELSE PolyReturnStep(f)
    ELSE IF f.pc = "entry" THEN CircEntryStep(f)
         ELSE IF CircMore(f) THEN CircLoopStep(f, oc) ELSE CircReturnStep(f)

RECURSIVE Run(_, _)
Run(f, oc) ==
    With(f, LAMBDA g : IF Terminal(g) THEN g ELSE Run(Step(g, oc), oc))

polynomial_multiply(a, b, oc) ==
    Run(Call("polynomial_multiply", a, b, "source"), oc)

positive_wrapped_convolution(a, b, oc) ==
    Run(Call("positive_wrapped_convolution", a, b, "source"), oc)

(***************************************************************************)
(* The mathematical definitions the properties compare the code with,      *)
(* computed on exact integers.                                             *)
(***************************************************************************)
RECURSIVE WSum(_, _, _)
WSum(t, lo, hi) == IF lo > hi THEN Zero ELSE WAdd(t[lo], WSum(t, lo + 1, hi))

\* the sum of a[i] * b[j] over i + j = k
LinearCoefficient(a, b, k) ==
    With([i \in 0..(Len(a) - 1) |->
             IF 0 <= k - i /\ k - i < Len(b)
             THEN WMul(a[i + 1], b[k - i + 1]) ELSE Zero],
         LAMBDA t : WSum(t, 0, Len(a) - 1))

\* the sum over i of a[i] * b[(x - i) mod n], the modulo nonnegative
CircularCoefficient(a, b, x) ==
    With([i \in 0..(Len(a) - 1) |-> WMul(a[i + 1], b[((x - i) % Len(a)) + 1])],
         LAMBDA t : WSum(t, 0, Len(a) - 1))

\* the sum of c[k] over the k congruent to x modulo n
FoldedCoefficient(c, n, x) ==
    With([k \in 0..(Len(c) - 1) |-> IF k % n = x THEN c[k + 1] ELSE Zero],
         LAMBDA t : WSum(t, 0, Len(c) - 1))

IsPoly == frame.fn = "polynomial_multiply"
IsCirc == frame.fn = "positive_wrapped_convolution"
LenA == Len(frame.a)
LenB == Len(frame.b)
OverflowPanics ==
    {"attempt to multiply with overflow", "attempt to add with overflow"}

(***************************************************************************)
(* C1.  polynomial_multiply on nonempty a (length n) and b (length m)      *)
(* whose products and partial sums all fit i64 returns n+m-1 coefficients, *)
(* the k-th being the sum of a[i]*b[j] over i+j = k; for main's vectors    *)
(* [1,2,3,4] and [5,6,7,8] that is [5,16,34,60,61,52,32].                  *)
(***************************************************************************)
C1_LinearConvolution ==
    (IsPoly /\ Terminal(frame) /\ LenA >= 1 /\ LenB >= 1 /\ ~frame.overflowed)
    => /\ frame.pc = "returned"
       /\ Len(frame.result) = LenA + LenB - 1
       /\ \A k \in 0..(LenA + LenB - 2) :
             frame.result[k + 1] = LinearCoefficient(frame.a, frame.b, k)
       /\ (frame.a = SampleA /\ frame.b = SampleB)
             => frame.result = Vec(<<5, 16, 34, 60, 61, 52, 32>>)

C1_Witness ==
    /\ IsPoly /\ frame.pc = "returned"
    /\ frame.a = SampleA /\ frame.b = SampleB
    /\ frame.result = Vec(<<5, 16, 34, 60, 61, 52, 32>>)

(***************************************************************************)
(* C2.  positive_wrapped_convolution on a and b of equal length n >= 1     *)
(* whose products and partial sums all fit i64 returns n values, the x-th  *)
(* being the sum over i of a[i]*b[(x-i) mod n]; for main's vectors that is *)
(* [66,68,66,60].                                                          *)
(***************************************************************************)
C2_CircularConvolution ==
    (IsCirc /\ Terminal(frame) /\ LenA >= 1 /\ LenA = LenB /\ ~frame.overflowed)
    => /\ frame.pc = "returned"
       /\ Len(frame.result) = LenA
       /\ \A x \in 0..(LenA - 1) :
             frame.result[x + 1] = CircularCoefficient(frame.a, frame.b, x)
       /\ (frame.a = SampleA /\ frame.b = SampleB)
             => frame.result = Vec(<<66, 68, 66, 60>>)

C2_Witness ==
    /\ IsCirc /\ frame.pc = "returned"
    /\ frame.a = SampleA /\ frame.b = SampleB
    /\ frame.result = Vec(<<66, 68, 66, 60>>)

(***************************************************************************)
(* C3.  Folding the linear convolution modulo n gives the circular one.    *)
(* As claimed, for all a, b of equal length n >= 1: whenever               *)
(* polynomial_multiply(a, b) returns c, positive_wrapped_convolution(a, b) *)
(* returns too, and its x-th value is the sum of the c[k] with k = x mod n *)
(* (the sum read as an i64).                                               *)
(***************************************************************************)
C3_FoldAsClaimed ==
    (IsCirc /\ Terminal(frame) /\ LenA >= 1 /\ LenA = LenB)
    => \A lin \in {polynomial_multiply(frame.a, frame.b, overflow_checks)} :
          lin.pc = "returned"
          => /\ frame.pc = "returned"
             /\ \A x \in 0..(LenA - 1) :
                   frame.result[x + 1]
                      = WrapI64(FoldedCoefficient(lin.result, LenA, x))

(***************************************************************************)
(* C3, amended.  For a, b of equal length n >= 1, when both calls return,  *)
(* the x-th circular value is the sum of the c[k] with k = x mod n reduced *)
(* to 64 bits, and is that sum exactly when neither call overflowed; both  *)
(* calls return when the build does not check overflow.                    *)
(***************************************************************************)
C3_FoldWhenBothReturn ==
    (IsCirc /\ Terminal(frame) /\ LenA >= 1 /\ LenA = LenB)
    => \A lin \in {polynomial_multiply(frame.a, frame.b, overflow_checks)} :
          /\ (~overflow_checks) => (frame.pc = "returned" /\ lin.pc = "returned")
          /\ (frame.pc = "returned" /\ lin.pc = "returned")
             => \A x \in 0..(LenA - 1) :
                   /\ frame.result[x + 1]
                         = WrapI64(FoldedCoefficient(lin.result, LenA, x))
                   /\ (~frame.overflowed /\ ~lin.overflowed)
                         => frame.result[x + 1]
                               = FoldedCoefficient(lin.result, LenA, x)

C3_Witness ==
    /\ IsCirc /\ frame.pc = "returned" /\ LenA = 3 /\ LenB = 3
    /\ ~frame.overflowed
    /\ frame.a[3] = I64Max
    /\ polynomial_multiply(frame.a, frame.b, overflow_checks).pc = "returned"
    /\ frame.result[1]
          = FoldedCoefficient(
               polynomial_multiply(frame.a, frame.b, overflow_checks).result, 3, 0)

(***************************************************************************)
(* C4.  positive_wrapped_convolution on slices of unequal length panics on *)
(* its assertion as its first step: it never allocates, reads an element,  *)
(* accumulates or returns.                                                 *)
(***************************************************************************)
C4_MismatchFailsFirst ==
    (IsCirc /\ LenA # LenB)
    => /\ frame.pc \in {"entry", "panicked"}
       /\ frame.pc = "panicked"
             => frame.panic
                   = "assertion failed: Input sequences must have the same length"
       /\ frame.nsteps = 0
       /\ frame.naccess = 0
       /\ frame.result = <<>>

C4_Witness ==
    /\ IsCirc /\ LenA = 0 /\ LenB = 2
    /\ frame.pc = "panicked"
    /\ frame.panic = "assertion failed: Input sequences must have the same length"

(***************************************************************************)
(* C5.  polynomial_multiply with an empty a or an empty b either fails     *)
(* with an error or returns the empty sequence.                            *)
(***************************************************************************)
C5_EmptyInputRejectedOrEmpty ==
    (IsPoly /\ Terminal(frame) /\ (LenA = 0 \/ LenB = 0))
    => (frame.pc = "panicked" \/ frame.result = <<>>)

\* the same call with its two arguments exchanged
SwappedCall == Run(Call(frame.fn, frame.b, frame.a, "source"), overflow_checks)

(***************************************************************************)
(* C6.  Both convolutions are commutative.  As claimed, for all nonempty   *)
(* a, b (polynomial_multiply) and all a, b of equal length                 *)
(* (positive_wrapped_convolution): the call on (a, b) and the call on      *)
(* (b, a) end alike, and when they return they return equal sequences.     *)
(***************************************************************************)
C6_Domain ==
    \/ IsPoly /\ LenA >= 1 /\ LenB >= 1
    \/ IsCirc /\ LenA = LenB

C6_CommutativeAsClaimed ==
    (C6_Domain /\ Terminal(frame))
    => \A sw \in {SwappedCall} :
          /\ sw.pc = frame.pc
          /\ frame.pc = "returned" => sw.result = frame.result

(***************************************************************************)
(* C6, amended.  On the same inputs, whenever the call on (a, b) and the   *)
(* call on (b, a) both return, they return equal sequences; both return    *)
(* when the build does not check overflow.                                 *)
(***************************************************************************)
C6_CommutativeWhenBothReturn ==
    (C6_Domain /\ Terminal(frame))
    => \A sw \in {SwappedCall} :
          /\ (~overflow_checks) => (frame.pc = "returned" /\ sw.pc = "returned")
          /\ (frame.pc = "returned" /\ sw.pc = "returned")
                => sw.result = frame.result

C6_Witness ==
    /\ IsPoly /\ frame.pc = "returned" /\ LenA = 3 /\ LenB = 2
    /\ frame.a[1] = I64Max /\ frame.b[1] = FromInt(-1) /\ frame.b[2] = One
    /\ SwappedCall.pc = "returned"
    /\ SwappedCall.result = frame.result

(***************************************************************************)
(* C7.  Identity: polynomial_multiply(a, [1]) returns a for every nonempty *)
(* a, and positive_wrapped_convolution(a, [1,0,...,0]) returns a for every *)
(* a of length n >= 1.                                                     *)
(***************************************************************************)
C7_Identity ==
    /\ (IsPoly /\ Terminal(frame) /\ LenA >= 1 /\ frame.b = <<One>>)
          => (frame.pc = "returned" /\ frame.result = frame.a)
    /\ (IsCirc /\ Terminal(frame) /\ LenA >= 1 /\ frame.b = UnitVec(LenA))
          => (frame.pc = "returned" /\ frame.result = frame.a)

C7_Witness ==
    /\ IsCirc /\ frame.pc = "returned" /\ LenA = 3
    /\ frame.b = UnitVec(3)
    /\ frame.a = <<I64Max, FromInt(-1), I64Max>>
    /\ frame.result = frame.a

(***************************************************************************)
(* C8.  In positive_wrapped_convolution, for every x and i in 0..n-1 the   *)
(* value x + n - i taken modulo n lies in 1..2n-1, the index j it gives    *)
(* lies in 0..n-1 and is congruent to x - i modulo n, and a[i], b[j] and   *)
(* result[x] are within bounds; a call that returns has visited every      *)
(* (x, i).                                                                 *)
(***************************************************************************)
C8_WrappedIndex ==
    IsCirc
    => /\ frame.panic # "index out of bounds"
       /\ frame.pc = "returned" => \A q \in DOMAIN frame.count : frame.count[q] = 1
       /\ \A q \in DOMAIN frame.count :
             frame.count[q] > 0
             => /\ frame.log[q].pre >= 1
                /\ frame.log[q].pre <= 2 * LenA - 1
                /\ frame.log[q].j \in 0..(LenA - 1)
                /\ (frame.log[q].j - (q[1] - q[2])) % LenA = 0
                /\ q[2] < Len(frame.a)
                /\ frame.log[q].j < Len(frame.b)
                /\ frame.log[q].k = q[1]
                /\ q[1] < Len(frame.result)

C8_Witness ==
    /\ IsCirc /\ frame.pc = "returned" /\ LenA = 3
    /\ frame.log[<<0, 2>>] = [k |-> 0, pre |-> 1, j |-> 1]
    /\ frame.log[<<2, 0>>] = [k |-> 2, pre |-> 5, j |-> 2]

ContractLen == IF IsPoly THEN LenA + LenB - 1 ELSE LenA

Coefficient(k) ==
    IF IsPoly THEN LinearCoefficient(frame.a, frame.b, k)
    ELSE CircularCoefficient(frame.a, frame.b, k)

(***************************************************************************)
(* C9.  Overflow during accumulation.  As claimed: a call in which a       *)
(* product or a sum left the i64 range still runs to completion and        *)
(* returns a sequence of the contracted length.                            *)
(***************************************************************************)
C9_OverflowUndetectedAsClaimed ==
    (Terminal(frame) /\ frame.overflowed)
    => (frame.pc = "returned" /\ Len(frame.result) = ContractLen)

(***************************************************************************)
(* C9, amended.  In a build without overflow checks, a call in which a     *)
(* product or a sum left the i64 range runs to completion and returns the  *)
(* contracted length, every value the exact sum reduced to 64 bits; in a   *)
(* build with overflow checks it panics at that operation and returns      *)
(* nothing.  No call panics on overflow otherwise.                         *)
(***************************************************************************)
C9_OverflowByBuild ==
    /\ frame.panic \in OverflowPanics => (overflow_checks /\ frame.overflowed)
    /\ (Terminal(frame) /\ frame.overflowed)
       => IF overflow_checks
          THEN frame.pc = "panicked" /\ frame.panic \in OverflowPanics
          ELSE /\ frame.pc = "returned"
               /\ Len(frame.result) = ContractLen
               /\ \A k \in 0..(ContractLen - 1) :
                     frame.result[k + 1] = WrapI64(Coefficient(k))

C9_Witness ==
    /\ IsPoly /\ frame.pc = "returned" /\ frame.overflowed /\ ~overflow_checks
    /\ frame.a = <<I64Max, I64Max>> /\ frame.b = <<I64Max, One>>
    /\ frame.result = <<One, I64Min, I64Max>>

(***************************************************************************)
(* C10.  The loop of polynomial_multiply on nonempty a and b.  As claimed: *)
(* the output starts as zeros; no pair (i, j) is accumulated twice and an  *)
(* accumulation writes index i + j, within 0..n+m-2; the loop ends with    *)
(* every pair accumulated once, n*m steps, and the call returns; and the   *)
(* output returned is the same in whatever order the steps are taken.      *)
(***************************************************************************)
C10_StartsZero ==
    (frame.pc = "loop" /\ frame.nsteps = 0)
    => frame.result = ZeroVec(LenA + LenB - 1)

C10_StepsWriteOnce ==
    \A q \in DOMAIN frame.count :
       /\ frame.count[q] <= 1
       /\ frame.count[q] = 1
             => /\ frame.log[q].k = q[1] + q[2]
                /\ frame.log[q].k \in 0..(LenA + LenB - 2)

C10_AllPairsDone ==
    /\ \A q \in DOMAIN frame.count : frame.count[q] = 1
    /\ frame.nsteps = LenA * LenB

C10_LoopAsClaimed ==
    (IsPoly /\ LenA >= 1 /\ LenB >= 1)
    => /\ C10_StartsZero
       /\ C10_StepsWriteOnce
       /\ Terminal(frame)
             => /\ frame.pc = "returned"
                /\ C10_AllPairsDone
                /\ frame.result
                      = polynomial_multiply(frame.a, frame.b, overflow_checks).result

(***************************************************************************)
(* C10, amended.  The output starts as zeros; no pair is accumulated twice *)
(* and an accumulation writes index i + j, within 0..n+m-2; in the order   *)
(* of the source the steps taken are the pairs before (i, j); the only     *)
(* panic is an overflow panic of a build that checks overflow, which       *)
(* leaves the later pairs unaccumulated; a call that returns has           *)
(* accumulated every pair once, n*m steps, and returns the exact           *)
(* coefficients reduced to 64 bits, the same in whatever order the steps   *)
(* were taken.                                                             *)
(***************************************************************************)
C10_LoopUnlessOverflowPanic ==
    (IsPoly /\ LenA >= 1 /\ LenB >= 1)
    => /\ C10_StartsZero
       /\ C10_StepsWriteOnce
       /\ frame.nsteps <= LenA * LenB
       /\ (frame.order = "source" /\ frame.pc = "loop")
             => frame.nsteps = frame.i * LenB + frame.j
       /\ frame.pc = "panicked"
             => (overflow_checks /\ frame.panic \in OverflowPanics)
       /\ frame.pc = "returned"
             => /\ C10_AllPairsDone
                /\ \A k \in 0..(LenA + LenB - 2) :
                      frame.result[k + 1]
                         = WrapI64(LinearCoefficient(frame.a, frame.b, k))
                /\ \A src \in {polynomial_multiply(frame.a, frame.b, overflow_checks)} :
                      src.pc = "returned" => src.result = frame.result

C10_Witness ==
    /\ IsPoly /\ frame.order = "any" /\ frame.pc = "returned"
    /\ LenA = 2 /\ LenB = 2 /\ frame.nsteps = 4
    /\ frame.overflowed
    /\ frame.result
          = polynomial_multiply(frame.a, frame.b, overflow_checks).result

=============================================================================
